---- MODULE Spec2Model ----
(***************************************************************************)
(* Model of the App component of src/src/App.jsx: the event store, the     *)
(* timeline cursor, the play/pause state, the fetch effect with its        *)
(* per-request `cancelled` flag, the snap-to-end effect, the auto-play     *)
(* interval and the `filtered` memo.                                       *)
(*                                                                         *)
(* Granularity: one state per committed render.  State updates issued in   *)
(* one handler or one promise continuation are committed together          *)
(* (automatic batching), and the passive effects of a render run before    *)
(* any other event is handled.  A click or an input change is a discrete   *)
(* event: its render and its effects are one step.  A fetch completion     *)
(* commits first (FetchComplete) and its effects run in the next step      *)
(* (RunEffects).                                                           *)
(***************************************************************************)
EXTENDS Integers, Sequences, FiniteSets, TLC

\* ---------------------------------------------------------------- bounds
MaxLen == 3          \* events in one response of the feed
MaxFetches == 2      \* fetches issued in one run, the mount fetch included
MaxFilterLen == 3    \* events in a collection of the filter specification
MaxRenderLen == 3    \* events in a collection of the render specification

\* ------------------------------------------------------------------ text
\* A string is a sequence of one-character strings.
Tokyo == <<"N","e","a","r"," ","T","o","k","y","o",","," ","J","a","p","a","n">>
Alaska == <<"A","l","a","s","k","a">>
Japan == <<"j","a","p","a","n">>

UpperToLower ==
  ("A" :> "a") @@ ("J" :> "j") @@ ("N" :> "n") @@ ("T" :> "t") @@ ("L" :> "l")

\* String.prototype.toLowerCase
toLowerCaseNone(s) == s
toLowerCase(s) ==
  [k \in 1..Len(s) |-> IF s[k] \in DOMAIN UpperToLower THEN UpperToLower[s[k]] ELSE s[k]]

\* String.prototype.includes
includes(s, q) ==
  \E i \in 0..(Len(s) - Len(q)) : SubSeq(s, i + 1, i + Len(q)) = q

\* textFilter.trim() is truthy: some character is not white space
trimTruthy(s) == \E k \in 1..Len(s) : s[k] # " "

\* ---------------------------------------------------------------- events
\* properties.place of a feature: a string, or absent
NoPlace == [has |-> FALSE, text |-> <<>>]
Place(s) == [has |-> TRUE, text |-> s]

\* f.properties?.place || ""
placeOrEmpty(f) == IF f.place.has THEN f.place.text ELSE <<>>

\* A value of the feed's JSON as typeof sees it; v is the number when it is one.
Num(n) == [type |-> "number", v |-> n]
Str == [type |-> "string", v |-> 0]
Null == [type |-> "object", v |-> 0]
Undefined == [type |-> "undefined", v |-> 0]

\* geometry.coordinates = [longitude, latitude, depthKm]; an absent geometry is
\* the empty array of `f.geometry?.coordinates || []`.  Magnitudes are in tenths.
GoodCoordinates == << Num(139), Num(35), Num(10) >>
GoodMag == Num(45)

\* A feed response of k features; the feature at feed position k has id k.
WithIds(s) ==
  [k \in 1..Len(s) |-> [id |-> k, time |-> s[k].time, place |-> s[k].place,
                        coordinates |-> s[k].coordinates, mag |-> s[k].mag]]
FeedsOf(kinds, n) == { WithIds(s) : s \in UNION { [1..k -> kinds] : k \in 0..n } }

Kinds ==
  { [time |-> 100, place |-> Place(Tokyo), coordinates |-> GoodCoordinates, mag |-> GoodMag],
    [time |-> 200, place |-> Place(Alaska), coordinates |-> GoodCoordinates, mag |-> GoodMag] }
Feeds == FeedsOf(Kinds, MaxLen)

FilterKinds ==
  [time : {100, 200}, place : {NoPlace, Place(Tokyo), Place(Alaska)},
   coordinates : {GoodCoordinates}, mag : {GoodMag}]
\* the collection with times [100, 200, 200, 300]
ExampleFeed ==
  WithIds([k \in 1..4 |->
             [time |-> <<100, 200, 200, 300>>[k],
              place |-> <<Place(Tokyo), Place(Alaska), NoPlace, Place(Tokyo)>>[k],
              coordinates |-> GoodCoordinates, mag |-> GoodMag]])
FilterFeeds == FeedsOf(FilterKinds, MaxFilterLen) \cup {ExampleFeed}

\* Features as the render surface can meet them: good coordinates, the
\* coordinates 0/0 without a magnitude, a latitude that is a string, a longitude
\* that is null, and no geometry at all.
RenderKinds ==
  { [time |-> 100, place |-> Place(Tokyo), coordinates |-> GoodCoordinates, mag |-> GoodMag],
    [time |-> 100, place |-> Place(Alaska), coordinates |-> << Num(0), Num(0), Num(0) >>,
     mag |-> Undefined],
    [time |-> 200, place |-> Place(Tokyo), coordinates |-> << Num(139), Str, Num(10) >>,
     mag |-> GoodMag],
    [time |-> 200, place |-> Place(Alaska), coordinates |-> << Null, Num(35), Num(10) >>,
     mag |-> GoodMag],
    [time |-> 100, place |-> NoPlace, coordinates |-> << >>, mag |-> GoodMag] }
RenderFeeds == FeedsOf(RenderKinds, MaxRenderLen)

Queries == { <<>>, Japan, <<"A","L","A">>, <<" ">> }

\* What a fetch can deliver: a feature array, a body without a feature array,
\* or a failure (network error, unparsable body).
Responses ==
  [kind : {"ok"}, data : Feeds] \cup
  { [kind |-> "notArray", data |-> <<>>], [kind |-> "fail", data |-> <<>>] }

\* ----------------------------------------------------------------- state
VARIABLES
  features,       \* useState([]): the event store
  timeIndex,      \* useState(0): the cursor, 0-based
  isPlaying,      \* useState(false)
  querying,       \* useState(false): the loading flag
  textFilter,     \* useState("")
  view,           \* useState("circles"): "circles" | "heat"
  fetches,        \* the fetches issued, in order: [cancelled, done]
  timers,         \* the active intervals: [id, len], len the captured times.length
  interval,       \* `interval` of the current auto-play effect closure, 0 = undefined
  effLen,         \* times.length at the last run of the auto-play effect
  effectsPending, \* a fetch completion was committed, its effects have not run
  mounted,        \* the component is mounted
  lastEvent,      \* history: the last event handled
  lastResult,     \* history: what the most recently issued fetch put in the store
  ticksSincePlay, \* history: ticks since a play action nothing else followed, or -1
  retimed         \* history: whether the last run of the effects of a fetch, if no
                  \* play/pause followed it, re-ran the auto-play effect while
                  \* Playing: the old times.length, and whether the old interval
                  \* was still active; from = -1 when it did not

vars == <<features, timeIndex, isPlaying, querying, textFilter, fetches, timers,
          interval, effLen, effectsPending, mounted, lastEvent, lastResult,
          ticksSincePlay, view, retimed>>

\* ------------------------------------------------------------ derivations
RECURSIVE insertBeforeEqual(_, _)
\* An insertion that places f before the elements of equal time.
insertBeforeEqual(f, s) ==
  IF s = <<>> THEN <<f>>
  ELSE IF s[Len(s)].time - f.time < 0 THEN Append(s, f)
  ELSE Append(insertBeforeEqual(f, SubSeq(s, 1, Len(s) - 1)), s[Len(s)])

RECURSIVE insertByTime(_, _)
\* Places f behind every element whose time is not greater: a stable insertion.
insertByTime(f, s) ==
  IF s = <<>> THEN <<f>>
  ELSE IF s[Len(s)].time - f.time <= 0 THEN Append(s, f)
  ELSE Append(insertByTime(f, SubSeq(s, 1, Len(s) - 1)), s[Len(s)])

RECURSIVE sortByTime(_)
\* [...features].sort((a, b) => a.properties.time - b.properties.time), a stable sort
sortByTime(s) ==
  IF s = <<>> THEN <<>>
  ELSE insertByTime(s[Len(s)], sortByTime(SubSeq(s, 1, Len(s) - 1)))

sortedOf(fs) == sortByTime(fs)
timesOf(fs) == LET so == sortedOf(fs) IN [k \in 1..Len(so) |-> so[k].time]

sorted == sortedOf(features)
times == timesOf(features)

\* the text test of the filtered memo
textKeeps(f, tf) ==
  trimTruthy(tf) => includes(toLowerCase(placeOrEmpty(f)), toLowerCase(tf))

\* the cutoff test of the filtered memo; times[i] is undefined past the end,
\* and a comparison with undefined is false
SelectTextKeeps(s, tf) == SelectSeq(s, LAMBDA f : textKeeps(f, tf))
cutoffStrict(f, ts, i) == i >= 0 /\ i < Len(ts) /\ f.time < ts[i + 1]
cutoffKeeps(f, ts, i) == i >= 0 /\ i < Len(ts) /\ f.time <= ts[i + 1]

filteredOf(fs, tf, i) ==
  LET base1 == IF trimTruthy(tf) THEN SelectTextKeeps(sortedOf(fs), tf) ELSE sortedOf(fs)
      ts == timesOf(fs)
  IN  IF Len(ts) > 0 THEN SelectSeq(base1, LAMBDA f : cutoffKeeps(f, ts, i)) ELSE base1

filtered == filteredOf(features, textFilter, timeIndex)

\* --------------------------------------------------------------- helpers
latest == Len(fetches)

\* clearInterval(id)
clearNothing(ts, id) == ts
clearInterval(ts, id) == { t \in ts : t.id # id }

FreeId(ts) == CHOOSE n \in 1..(Cardinality(ts) + 1) : \A t \in ts : t.id # n

\* the auto-play effect: cleanup of the previous run, then the new run
autoPlayNoCleanup(ts, id) == ts
autoPlayCleanup(ts, id) == clearInterval(ts, id)

autoPlayTimers(ts, id, playing, len) ==
  LET cleared == autoPlayCleanup(ts, id)
  IN  IF playing THEN cleared \cup { [id |-> FreeId(cleared), len |-> len] } ELSE cleared

autoPlayInterval(ts, id, playing) ==
  IF playing THEN FreeId(autoPlayCleanup(ts, id)) ELSE 0

\* the updater of the interval callback
tickAdvances(prev, len) == prev < len - 1
tickUpdater(prev, len) == IF tickAdvances(prev, len) THEN prev + 1 ELSE prev

\* if (!cancelled) of the fetch continuation
neverDiscarded(f) == FALSE
discarded(f) == f.cancelled

NotRetimed == [from |-> -1, live |-> FALSE]

\* ------------------------------------------------------------------ Init
\* After the first render and its effects: the mount fetch is in flight.
Init ==
  /\ features = <<>>
  /\ timeIndex = 0
  /\ isPlaying = FALSE
  /\ querying = TRUE
  /\ textFilter = <<>>
  /\ fetches = << [cancelled |-> FALSE, done |-> FALSE] >>
  /\ timers = {}
  /\ interval = 0
  /\ effLen = 0
  /\ effectsPending = FALSE
  /\ mounted = TRUE
  /\ lastEvent = "mount"
  /\ lastResult = <<>>
  /\ ticksSincePlay = -1
  /\ view = "circles"
  /\ retimed = NotRetimed

Idle == mounted /\ ~effectsPending

\* --------------------------------------------------------------- actions
\* {times.length > 0 && ...}: the play/pause button and the range input are rendered
controlsAlwaysShown == TRUE
controlsShown == Len(times) > 0

\* handlePlayPause, with the auto-play effect its render triggers.
playIndexKept(prev, playing) == prev
playIndex(prev, playing) == IF ~playing THEN 0 ELSE prev

handlePlayPause ==
  /\ Idle
  /\ controlsShown
  /\ timeIndex' = playIndex(timeIndex, isPlaying)
  /\ isPlaying' = ~isPlaying
  /\ timers' = autoPlayTimers(timers, interval, ~isPlaying, Len(times))
  /\ interval' = autoPlayInterval(timers, interval, ~isPlaying)
  /\ effLen' = Len(times)
  /\ lastEvent' = IF isPlaying THEN "pause" ELSE "play"
  /\ ticksSincePlay' = IF isPlaying THEN -1 ELSE 0
  /\ retimed' = NotRetimed
  /\ UNCHANGED <<features, querying, textFilter, fetches, effectsPending, mounted,
                 lastResult, view>>

\* Tick as it would be if the end-of-timeline branch also called setIsPlaying(false).
TickStopsAtEnd ==
  /\ Idle
  /\ \E t \in timers :
       /\ timeIndex' = tickUpdater(timeIndex, t.len)
       /\ timers' = IF tickAdvances(timeIndex, t.len) THEN timers
                    ELSE clearInterval(timers, t.id)
       /\ isPlaying' = IF tickAdvances(timeIndex, t.len) THEN isPlaying ELSE FALSE
  /\ lastEvent' = "tick"
  /\ ticksSincePlay' = IF ticksSincePlay >= 0 THEN ticksSincePlay + 1 ELSE -1
  /\ UNCHANGED <<features, querying, textFilter, fetches, interval, effLen,
                 effectsPending, mounted, lastResult, view, retimed>>

\* One firing of an active interval: setTimeIndex(prev => ...), the interval
\* clearing itself when prev is at or past the captured end.
Tick ==
  /\ Idle
  /\ \E t \in timers :
       /\ timeIndex' = tickUpdater(timeIndex, t.len)
       /\ timers' = IF tickAdvances(timeIndex, t.len) THEN timers
                    ELSE clearInterval(timers, t.id)
  /\ lastEvent' = "tick"
  /\ ticksSincePlay' = IF ticksSincePlay >= 0 THEN ticksSincePlay + 1 ELSE -1
  /\ UNCHANGED <<features, isPlaying, querying, textFilter, fetches, interval, effLen,
                 effectsPending, mounted, lastResult, view, retimed>>

\* onChange of the timeline range input (min 0, max times.length - 1), rendered
\* only while times.length > 0.
Scrub ==
  /\ Idle
  /\ controlsShown
  /\ \E p \in 0..(Len(times) - 1) :
       /\ p # timeIndex
       /\ timeIndex' = p
  /\ lastEvent' = "scrub"
  /\ ticksSincePlay' = -1
  /\ UNCHANGED <<features, isPlaying, querying, textFilter, fetches, timers, interval,
                 effLen, effectsPending, mounted, lastResult, view, retimed>>

\* SetTextFilter as it would be if a new query also rewound the timeline.
SetTextFilterRewinds ==
  /\ Idle
  /\ \E q \in Queries :
       /\ q # textFilter
       /\ textFilter' = q
  /\ timeIndex' = 0
  /\ lastEvent' = "text"
  /\ ticksSincePlay' = -1
  /\ UNCHANGED <<features, isPlaying, querying, fetches, timers, interval,
                 effLen, effectsPending, mounted, lastResult, view, retimed>>

\* onChange of the text filter input
SetTextFilter ==
  /\ Idle
  /\ \E q \in Queries :
       /\ q # textFilter
       /\ textFilter' = q
  /\ lastEvent' = "text"
  /\ ticksSincePlay' = -1
  /\ UNCHANGED <<features, timeIndex, isPlaying, querying, fetches, timers, interval,
                 effLen, effectsPending, mounted, lastResult, view, retimed>>

\* A change of start, end, minMag or limit: the fetch effect's cleanup sets the
\* previous request's `cancelled`, and run() issues a new request and sets the
\* loading flag.
fetchCleanup(fs) ==
  [k \in 1..Len(fs) |-> IF k = Len(fs) THEN [fs[k] EXCEPT !.cancelled = TRUE] ELSE fs[k]]

ChangeParams ==
  /\ Idle
  /\ Len(fetches) < MaxFetches
  /\ fetches' = Append(fetchCleanup(fetches), [cancelled |-> FALSE, done |-> FALSE])
  /\ querying' = TRUE
  /\ lastEvent' = "params"
  /\ ticksSincePlay' = -1
  /\ UNCHANGED <<features, timeIndex, isPlaying, textFilter, timers, interval, effLen,
                 effectsPending, mounted, lastResult, view, retimed>>

\* The continuation of run() after the awaits, for request k and response r.
storeKeptOnFail(r, old) == IF r.kind = "fail" THEN old ELSE r.data
storeAfter(r, old) == IF r.kind = "ok" THEN r.data ELSE <<>>
\* setQuerying(false) of the finally block
queryingOnlyOnSuccess(r, q) == IF r.kind = "fail" THEN q ELSE FALSE
queryingAfter(r, q) == FALSE
indexKept(r, prev) == prev
indexAfter(r, prev) == IF r.kind = "fail" THEN prev ELSE 0

eventOf(r) ==
  IF r.kind = "ok" THEN "fetchOk" ELSE IF r.kind = "fail" THEN "fetchFail" ELSE "fetchNotArray"

FetchStale(k, r) ==
  /\ discarded(fetches[k])
  /\ lastEvent' = "staleDone"
  /\ UNCHANGED <<features, timeIndex, querying, effectsPending, lastResult,
                 ticksSincePlay>>

FetchCommit(k, r) ==
  /\ ~discarded(fetches[k])
  /\ features' = storeAfter(r, features)
  /\ timeIndex' = indexAfter(r, timeIndex)
  /\ querying' = queryingAfter(r, querying)
  /\ effectsPending' = TRUE
  /\ lastEvent' = eventOf(r)
  /\ lastResult' = IF k = latest THEN storeAfter(r, features) ELSE lastResult
  /\ ticksSincePlay' = -1

FetchComplete ==
  /\ ~effectsPending
  /\ \E k \in 1..Len(fetches), r \in Responses :
       /\ ~fetches[k].done
       /\ fetches' = [fetches EXCEPT ![k].done = TRUE]
       /\ FetchStale(k, r) \/ FetchCommit(k, r)
  /\ UNCHANGED <<isPlaying, textFilter, timers, interval, effLen, mounted, view, retimed>>

\* The effects of the render a fetch completion committed, in source order:
\* the snap-to-end effect (deps [times]) and the auto-play effect
\* (deps [isPlaying, times.length]).
\* the dependency array [isPlaying, times.length] between two renders with the
\* same isPlaying
autoPlayDepsNever(len, prevLen) == FALSE
autoPlayDepsChanged(len, prevLen) == len # prevLen

snapIndexKept(prev, len) == prev
snapIndex(prev, len) == IF len > 0 THEN len - 1 ELSE prev

RunEffects ==
  /\ effectsPending
  /\ effectsPending' = FALSE
  /\ timeIndex' = snapIndex(timeIndex, Len(times))
  /\ IF autoPlayDepsChanged(Len(times), effLen)
     THEN /\ timers' = autoPlayTimers(timers, interval, isPlaying, Len(times))
          /\ interval' = autoPlayInterval(timers, interval, isPlaying)
          /\ effLen' = Len(times)
          /\ retimed' = IF isPlaying THEN [from |-> effLen, live |-> timers # {}]
                        ELSE NotRetimed
     ELSE /\ retimed' = NotRetimed
          /\ UNCHANGED <<timers, interval, effLen>>
  /\ lastEvent' = "effects"
  /\ UNCHANGED <<features, isPlaying, querying, textFilter, fetches, mounted,
                 lastResult, ticksSincePlay, view>>

\* Unmount: the cleanups of the fetch effect and of the auto-play effect.
Unmount ==
  /\ Idle
  /\ mounted' = FALSE
  /\ fetches' = fetchCleanup(fetches)
  /\ timers' = autoPlayCleanup(timers, interval)
  /\ lastEvent' = "unmount"
  /\ ticksSincePlay' = -1
  /\ retimed' = NotRetimed
  /\ UNCHANGED <<features, timeIndex, isPlaying, querying, textFilter, interval, effLen,
                 effectsPending, lastResult, view>>

Next ==
  \/ handlePlayPause
  \/ Tick
  \/ Scrub
  \/ SetTextFilter
  \/ ChangeParams
  \/ FetchComplete
  \/ RunEffects
  \/ Unmount

Spec == Init /\ [][Next]_vars

\* ================================================================ C1
\* A superseded fetch: one whose `cancelled` was set before it completed.
StaleStep ==
  \E k \in 1..Len(fetches) :
    /\ k <= Len(fetches')
    /\ fetches[k].cancelled /\ ~fetches[k].done /\ fetches'[k].done

LatestDone == fetches[latest].done

\* C1: the completion of a superseded fetch, whatever it delivers and whether it
\* arrives before or after the newer fetch's, writes neither the event store nor
\* the cursor nor the loading flag; and once the newest fetch has completed, the
\* store holds what that fetch put there until a later fetch completes.
C1_NewestFetchWins ==
  /\ [][StaleStep => UNCHANGED <<features, timeIndex, querying>>]_vars
  /\ []((mounted /\ LatestDone) => features = lastResult)

\* A's completion arrives after B's has filled the store.
C1_Witness ==
  /\ lastEvent = "staleDone"
  /\ mounted /\ LatestDone
  /\ Len(fetches) >= 2
  /\ Len(features) > 0

\* ================================================================ C2
\* C2: whenever timestamps is non-empty the cursor indexes it:
\* 0 <= timeIndex < times.length, in every committed state.
C2_CursorInBounds ==
  Len(times) > 0 => (0 <= timeIndex /\ timeIndex < Len(times))

\* While Playing, a fetch returned a non-empty collection shorter than the one
\* it replaces, and has just been committed.
C2_Witness ==
  /\ effectsPending
  /\ lastEvent = "fetchOk"
  /\ isPlaying
  /\ Len(times) > 0
  /\ Len(times) < effLen

\* ================================================================ C3
\* C3: in the Playing state, after a manual change of the cursor to a position
\* p < times.length - 1, a tick is due and it moves the cursor to p + 1, also
\* when playback had been pinned at the last index before the manual change.
C3_ScrubThenTickAdvances ==
  (lastEvent = "scrub" /\ isPlaying /\ timeIndex < Len(times) - 1) =>
    /\ timers # {}
    /\ \A t \in timers : tickUpdater(timeIndex, t.len) = timeIndex + 1

\* ================================================================ C4
Min(a, b) == IF a <= b THEN a ELSE b

\* C4: a play action in the Stopped state sets the cursor to 0 and enters
\* Playing; with nothing else intervening, after n ticks the cursor is
\* min(n, times.length - 1), and a tick is due as long as it is below the end.
C4_PlayFromStart ==
  ticksSincePlay >= 0 =>
    /\ isPlaying
    /\ timeIndex = Min(ticksSincePlay, Len(times) - 1)
    /\ (timeIndex < Len(times) - 1 => timers # {})

\* Play on a collection of three: ticks 0 -> 1 -> 2, and one more tick that holds at 2.
C4_Witness ==
  /\ ticksSincePlay = 3
  /\ Len(times) = 3
  /\ timeIndex = 2

\* ================================================================ C5
\* C5: only the play/pause toggle changes the Playing/Stopped state; a tick that
\* finds the cursor at the last index leaves the state Playing.
C5_OnlyToggleChangesState ==
  [][(isPlaying' # isPlaying) => lastEvent' \in {"play", "pause"}]_vars

\* The tick that found the cursor at the last index has fired.
C5_Witness ==
  /\ lastEvent = "tick"
  /\ isPlaying
  /\ timers = {}
  /\ timeIndex = Len(times) - 1

\* ================================================================ C6
\* C6: a pause leaves the cursor unchanged; while Stopped no interval is active,
\* and the cursor changes only by a manual scrub, a play action or a fetch
\* completion (its commit and its snap-to-end effect).
C6_StoppedCursorFrame ==
  /\ [](~isPlaying => timers = {})
  /\ [][/\ (lastEvent' = "pause" /\ lastEvent # "pause") => timeIndex' = timeIndex
        /\ (~isPlaying /\ timeIndex' # timeIndex) =>
             lastEvent' \in {"scrub", "play", "fetchOk", "fetchNotArray", "effects"}]_vars

\* Paused in the middle of playback.
C6_Witness ==
  /\ lastEvent = "pause"
  /\ timeIndex > 0
  /\ timeIndex < Len(times) - 1

\* ------------------------------------------------- filter specification
\* The component with a collection loaded and no fetch outstanding, under the
\* two inputs of the filtered memo the user drives: the cursor and the text.
FilterInit ==
  /\ features \in FilterFeeds
  /\ timeIndex \in 0..(IF Len(features) > 0 THEN Len(features) - 1 ELSE 0)
  /\ textFilter \in Queries
  /\ isPlaying = FALSE
  /\ querying = FALSE
  /\ fetches = << [cancelled |-> FALSE, done |-> TRUE] >>
  /\ timers = {}
  /\ interval = 0
  /\ effLen = Len(features)
  /\ effectsPending = FALSE
  /\ mounted = TRUE
  /\ lastEvent = "effects"
  /\ lastResult = features
  /\ ticksSincePlay = -1
  /\ view = "circles"
  /\ retimed = NotRetimed

FilterNext == Scrub \/ SetTextFilter

FilterSpec == FilterInit /\ [][FilterNext]_vars

\* ================================================================ C7
\* C7: a successful fetch that is not superseded commits the cursor at 0; when
\* its collection is non-empty its effects leave the cursor at
\* times.length - 1, where an empty text filter shows the whole sorted
\* collection; in the Stopped and in the Playing state alike.
C7_ResetThenSnapToEnd ==
  /\ (lastEvent = "fetchOk" /\ effectsPending) => timeIndex = 0
  /\ (lastEvent = "effects" /\ Len(features) > 0) =>
       /\ timeIndex = Len(times) - 1
       /\ (textFilter = <<>> => filtered = sorted)

\* The effects of a fetch of two or more events have run while Playing.
C7_Witness ==
  /\ lastEvent = "effects"
  /\ isPlaying
  /\ Len(features) >= 2
  /\ textFilter = <<>>
  /\ filtered = sorted

\* ================================================================ C8
\* C8: when the newest fetch fails, or delivers a body without a feature array,
\* the event store is empty, the loading flag is cleared and the filtered
\* output is empty.
C8_FailureEmptiesStore ==
  lastEvent \in {"fetchFail", "fetchNotArray"} =>
    /\ features = <<>>
    /\ ~querying
    /\ filtered = <<>>

\* A failure that replaced a loaded collection; the cursor keeps its old value.
C8_Witness ==
  /\ lastEvent = "fetchFail"
  /\ timeIndex > 0
  /\ features = <<>>

\* ================================================================ C9
\* C9: while the component is mounted the loading flag is true exactly when the
\* most recently issued fetch has not completed.
C9_LoadingIffLatestOutstanding ==
  mounted => (querying <=> ~LatestDone)

\* A superseded fetch has completed while the newest one is outstanding.
C9_Witness ==
  /\ lastEvent = "staleDone"
  /\ mounted
  /\ querying
  /\ ~LatestDone

\* ================================================================ C10
Range(s) == { s[k] : k \in 1..Len(s) }

\* C10: at a cursor position i of a non-empty collection the filtered output is
\* the subsequence of sortedEvents of the events that pass the text test and
\* have time <= timestamps[i], and it contains the filtered output at every
\* j < i.
C10_FilteredIsCutoffOfSorted ==
  (Len(times) > 0 /\ timeIndex < Len(times)) =>
    /\ filtered = SelectSeq(sorted,
                    LAMBDA f : textKeeps(f, textFilter) /\ f.time <= times[timeIndex + 1])
    /\ \A j \in 0..(timeIndex - 1) :
         Range(filteredOf(features, textFilter, j)) \subseteq Range(filtered)

\* Times [100, 200, 200, 300], cursor 2: the events at 100 and both at 200.
C10_Witness ==
  /\ features = ExampleFeed
  /\ timeIndex = 2
  /\ textFilter = <<>>
  /\ lastEvent = "scrub"
  /\ [k \in 1..Len(filtered) |-> filtered[k].time] = <<100, 200, 200>>

C12_EmptyStoreNoControls ==
  features = <<>> =>
    /\ ~controlsShown
    /\ ~ENABLED handlePlayPause
    /\ ~ENABLED Scrub
    /\ filtered = <<>>

\* A failed fetch emptied the store during playback, with a text filter set and
\* the cursor left where it was.
C12_Witness ==
  /\ features = <<>>
  /\ lastEvent = "effects"
  /\ isPlaying
  /\ timeIndex > 0
  /\ textFilter = Japan

\* ================================================================ C13
\* Two characters that are the same letter, whatever their case.
SameLetter(a, b) ==
  \/ a = b
  \/ a \in DOMAIN UpperToLower /\ UpperToLower[a] = b
  \/ b \in DOMAIN UpperToLower /\ UpperToLower[b] = a

\* q occurs in s as a contiguous run, case ignored; the empty q occurs in every s.
CISubstring(q, s) ==
  \E i \in 0..(Len(s) - Len(q)) : \A k \in 1..Len(q) : SameLetter(s[i + k], q[k])

Blank(q) == \A k \in 1..Len(q) : q[k] = " "

PassesCutoff(f) == Len(times) > 0 => cutoffKeeps(f, times, timeIndex)

\* C13 as stated: among the events at or before the cutoff, the filtered output
\* keeps an event iff the query is a case-insensitive substring of its place,
\* an absent place counting as the empty string.
C13_KeepsIffSubstring ==
  \A k \in 1..Len(sorted) :
    PassesCutoff(sorted[k]) =>
      (sorted[k] \in Range(filtered) <=> CISubstring(textFilter, placeOrEmpty(sorted[k])))

\* C13 as amended: an event is kept iff the query is empty or holds only white
\* space, or the query is a case-insensitive substring of the event's place.
C13_KeepsIffBlankOrSubstring ==
  \A k \in 1..Len(sorted) :
    PassesCutoff(sorted[k]) =>
      (sorted[k] \in Range(filtered) <=>
         (Blank(textFilter) \/ CISubstring(textFilter, placeOrEmpty(sorted[k]))))

\* "japan" against "Near Tokyo, Japan" and "Alaska": only the first is kept.
C13_Witness ==
  /\ lastEvent = "text"
  /\ textFilter = Japan
  /\ Len(features) = 2
  /\ features[1].place = Place(Tokyo)
  /\ features[2].place = Place(Alaska)
  /\ features[1].time = features[2].time
  /\ filtered = << features[1] >>

\* ================================================================ C14
TheTimer == { [id |-> interval, len |-> Len(times)] }

\* C14: at most one interval is active; none is active while Stopped or after
\* the unmount; after a play action, and after the effects of a change of
\* times.length while Playing, the one active interval is the one the last run
\* of the auto-play effect created.
C14_AtMostOneTimer ==
  /\ Cardinality(timers) <= 1
  /\ ~isPlaying => timers = {}
  /\ ~mounted => timers = {}
  /\ (~isPlaying \/ ~mounted) => ~ENABLED Tick
  /\ lastEvent = "play" => timers = TheTimer
  /\ (lastEvent = "effects" /\ retimed.from >= 0) => timers = TheTimer

\* While Playing a fetch changed times.length, and the effects replaced an
\* interval that was still active.
C14_Witness ==
  /\ lastEvent = "effects"
  /\ isPlaying
  /\ retimed.live
  /\ retimed.from # Len(times)
  /\ Cardinality(timers) = 1

elementAt(cs, i) == IF i <= Len(cs) THEN cs[i] ELSE Undefined
lngOf(f) == elementAt(f.coordinates, 1)
latOf(f) == elementAt(f.coordinates, 2)

\* typeof lat !== "number" || typeof lng !== "number": the feature maps to null
skippedIfFalsy(f) ==
  \/ latOf(f).type # "number" \/ lngOf(f).type # "number"
  \/ latOf(f).v = 0 \/ lngOf(f).v = 0
skipped(f) == latOf(f).type # "number" \/ lngOf(f).type # "number"

\* f.properties?.mag ?? 0, in tenths
magOrZero(f) == IF f.mag.type \in {"undefined", "object"} THEN 0 ELSE f.mag.v

Max(a, b) == IF a >= b THEN a ELSE b

\* the heatPoints memo: [lat, lng, Math.max(0.1, m)] or null, then filter(Boolean);
\* null is the empty tuple
heatPoints(fl) ==
  LET mapped == [k \in 1..Len(fl) |->
                   IF skipped(fl[k]) THEN << >>
                   ELSE << latOf(fl[k]).v, lngOf(fl[k]).v, Max(1, magOrZero(fl[k])) >>]
  IN  SelectSeq(mapped, LAMBDA p : p # << >>)

\* the circle markers: <CircleMarker key={id} center={[lat, lng]}> or null, the
\* nulls rendering nothing
circleMarkers(fl) ==
  LET mapped == [k \in 1..Len(fl) |->
                   IF skipped(fl[k]) THEN << >>
                   ELSE << fl[k].id, latOf(fl[k]).v, lngOf(fl[k]).v >>]
  IN  SelectSeq(mapped, LAMBDA p : p # << >>)

\* what the layer group shows
rendered == IF view = "circles" THEN circleMarkers(filtered) ELSE heatPoints(filtered)

\* onChange of the view select
SetView ==
  /\ Idle
  /\ \E v \in {"circles", "heat"} :
       /\ v # view
       /\ view' = v
  /\ lastEvent' = "view"
  /\ ticksSincePlay' = -1
  /\ UNCHANGED <<features, timeIndex, isPlaying, querying, textFilter, fetches, timers,
                 interval, effLen, effectsPending, mounted, lastResult, retimed>>

\* The component with a collection loaded and no fetch outstanding, under the
\* inputs of the render surface the user drives.
RenderInit ==
  /\ features \in RenderFeeds
  /\ timeIndex \in 0..(IF Len(features) > 0 THEN Len(features) - 1 ELSE 0)
  /\ textFilter \in {<<>>, Japan}
  /\ view \in {"circles", "heat"}
  /\ isPlaying = FALSE
  /\ querying = FALSE
  /\ fetches = << [cancelled |-> FALSE, done |-> TRUE] >>
  /\ timers = {}
  /\ interval = 0
  /\ effLen = Len(features)
  /\ effectsPending = FALSE
  /\ mounted = TRUE
  /\ lastEvent = "effects"
  /\ lastResult = features
  /\ ticksSincePlay = -1
  /\ retimed = NotRetimed

RenderNext == SetView \/ Scrub

RenderSpec == RenderInit /\ [][RenderNext]_vars

\* ================================================================ C16
\* Latitude (second coordinate) and longitude (first coordinate) are numbers.
ValidCoordinate(f) ==
  /\ Len(f.coordinates) >= 2
  /\ f.coordinates[1].type = "number"
  /\ f.coordinates[2].type = "number"

Renderable == SelectSeq(filtered, ValidCoordinate)

\* C16: in circles and in heat mode alike, what is rendered is the filtered
\* output without the events whose latitude or longitude is not a number, one
\* item per remaining event, in the same order.
C16_RenderedIsFilteredMinusInvalid ==
  /\ Len(rendered) = Len(Renderable)
  /\ \A k \in 1..Len(Renderable) :
       IF view = "circles"
       THEN rendered[k] = << Renderable[k].id, Renderable[k].coordinates[2].v,
                             Renderable[k].coordinates[1].v >>
       ELSE /\ rendered[k][1] = Renderable[k].coordinates[2].v
            /\ rendered[k][2] = Renderable[k].coordinates[1].v

\* Heat mode on a filtered output of three events, the middle one without
\* geometry: the two others are rendered, the one at 0/0 included.
C16_Witness ==
  /\ lastEvent = "view"
  /\ view = "heat"
  /\ Len(filtered) = 3
  /\ filtered[2].coordinates = << >>
  /\ filtered[3].coordinates = << Num(0), Num(0), Num(0) >>
  /\ rendered = << <<35, 139, 45>>, <<0, 0, 1>> >>

\* ================================================================ C17
\* C17: a change of the text filter leaves the event store, sortedEvents,
\* timestamps, the cursor, the play state and the loading flag as they were and
\* issues no fetch; and at the current cursor the output under any query is the
\* output under the empty query restricted to the events that pass the text
\* test: the cutoff does not depend on the text filter.
C17_TextFilterFrame ==
  /\ [][textFilter' # textFilter =>
          /\ UNCHANGED <<features, timeIndex, isPlaying, querying, fetches>>
          /\ sortedOf(features') = sortedOf(features)
          /\ timesOf(features') = timesOf(features)]_vars
  /\ [](LET unfiltered == filteredOf(features, <<>>, timeIndex)
        IN  \A q \in Queries :
              Range(filteredOf(features, q, timeIndex)) =
                { f \in Range(unfiltered) : textKeeps(f, q) })

\* The text filter was changed in mid-playback while a fetch was outstanding.
C17_Witness ==
  /\ lastEvent = "text"
  /\ textFilter = Japan
  /\ isPlaying
  /\ querying
  /\ Len(times) = 3
  /\ timeIndex = 1
  /\ Len(filtered) < timeIndex + 1

====
